---- MODULE Spec2Model ----
(***************************************************************************)
(* Model of roax.resource: the Resource method registry, the `method`      *)
(* decorator (kind/name resolution, context wrapper, validation            *)
(* composition), Resource.call dispatch and the ResourceError taxonomy.    *)
(*                                                                         *)
(* Python strings are modelled as sequences of atoms, an atom being either *)
(* the separator "_" or a word that holds no separator; "" is <<>>.        *)
(***************************************************************************)
EXTENDS Integers, Sequences, FiniteSets, TLC

VARIABLES attrs, inst, acts, ctx, done, defaults

vars == <<attrs, inst, acts, ctx, done, defaults>>

-----------------------------------------------------------------------------
(* Bounds *)

MaxAttrs == 3
MaxDepth == 2
MaxBound == 1

Threads == {1, 2}
Instances == {1}

-----------------------------------------------------------------------------
(* Python values *)

None == <<"None">>

Truthy(x) == x # None /\ x # <<>>

PyOr(x, y) == IF Truthy(x) THEN x ELSE y

SepIndex(s) ==
  IF \E i \in 1..Len(s) : s[i] = "_"
    THEN CHOOSE i \in 1..Len(s) : s[i] = "_" /\ \A j \in 1..(i - 1) : s[j] # "_"
    ELSE 0

Split1(s) ==
  LET i == SepIndex(s)
  IN  IF i = 0 THEN << s >>
      ELSE << SubSeq(s, 1, i - 1), SubSeq(s, i + 1, Len(s)) >>

-----------------------------------------------------------------------------
(* Error taxonomy *)

NoCode == -1

TypeError(detail) == [type |-> "TypeError", detail |-> detail, code |-> NoCode]

ResourceError(detail, code) ==
  IF code = NoCode
    THEN TypeError("__init__() missing 1 required positional argument: 'code'")
    ELSE [type |-> "ResourceError", detail |-> detail, code |-> code]

BadRequest(detail) == [type |-> "BadRequest", detail |-> detail, code |-> 400]

\* variant: Conflict with the HTTP status 409
Conflict_409(detail) == [type |-> "Conflict", detail |-> detail, code |-> 409]

Unauthorized(realm, detail) ==
  [type |-> "Unauthorized", detail |-> detail, code |-> 401, realm |-> realm]

Forbidden(detail) == [type |-> "Forbidden", detail |-> detail, code |-> 403]

NotFound(detail) == [type |-> "NotFound", detail |-> detail, code |-> 404]

Conflict(detail) == [type |-> "Conflict", detail |-> detail, code |-> 412]

PreconditionFailed(detail) ==
  [type |-> "PreconditionFailed", detail |-> detail, code |-> 412]

InternalServerError(detail) ==
  [type |-> "InternalServerError", detail |-> detail, code |-> 500]

\* the details and realms errors are constructed with; "None" is the default detail
Details == {"None", "", "not allowed"}

Realms == {"users", "admins"}

TaxonomyErrors ==
  {BadRequest(d) : d \in Details}
    \cup {Unauthorized(r, d) : r \in Realms, d \in Details}
    \cup {Forbidden(d) : d \in Details}
    \cup {NotFound(d) : d \in Details}
    \cup {Conflict(d) : d \in Details}
    \cup {PreconditionFailed(d) : d \in Details}
    \cup {InternalServerError(d) : d \in Details}

KeyError(detail) == [type |-> "KeyError", detail |-> detail, code |-> NoCode]

NoError == [type |-> "none", detail |-> "", code |-> NoCode]

-----------------------------------------------------------------------------
(* Attribute names, in the order dir() lists them (sorted) *)

AttrOrder ==
  << <<"_", "foo">>,
     <<"_", "register", "_", "method">>,
     <<"call">>,
     <<"create">>,
     <<"create", "_">>,
     <<"create", "_", "widget">>,
     <<"create", "_", "widget", "_", "foo">>,
     <<"echo">>,
     <<"foo">> >>

BaseAttrs == { <<"_", "register", "_", "method">>, <<"call">> }

ParamsSchema == <<"params-schema">>
ReturnsSchema == <<"returns-schema">>
DenyAll == <<"deny-all">>

Decl(f, kind, name, params, returns, security) ==
  [f |-> f, kind |-> kind, name |-> name,
   params |-> params, returns |-> returns, security |-> security]

\* the declarations of the resource classes under study: the test resource's
\* create, foo and echo (foo and echo both with the explicit kind "action"),
\* and a create_widget without schemas
Decls ==
  { Decl(<<"create">>, None, None, ParamsSchema, ReturnsSchema, None),
    Decl(<<"create", "_", "widget">>, None, None, None, None, None),
    Decl(<<"foo">>, <<"action">>, None, ParamsSchema, ReturnsSchema, DenyAll),
    Decl(<<"echo">>, <<"action">>, None, ParamsSchema, ReturnsSchema, None) }

FuncNames == { d.f : d \in Decls }

\* the inputs of the kind/name resolution
AnyFuncNames ==
  { <<"create">>, <<"create", "_", "widget">>, <<"foo">>, <<"echo">>,
    <<"create", "_">>, <<"_", "foo">>, <<"create", "_", "widget", "_", "foo">> }

AnyKinds == { None, <<>>, <<"action">> }

AnyNames == { None, <<>>, <<"foo">> }

-----------------------------------------------------------------------------
(* Registry *)

_Method(function, kind, name, params, returns, security) ==
  [function |-> function, kind |-> kind, name |-> name,
   params |-> params, returns |-> returns, security |-> security]

NoMethod == _Method(None, None, None, None, None, None)

EmptyMethods == [k \in {} |-> NoMethod]

\* dict.get: NoMethod stands for the None a missing key yields
MethodsGet(methods, key) ==
  IF key \in DOMAIN methods THEN methods[key] ELSE NoMethod

\* variant: no duplicate check, a later registration replaces the earlier one
_register_method_Overwrite(methods, function, kind, name, params, returns, security) ==
  [ok |-> TRUE,
   methods |-> [k \in DOMAIN methods \cup {<<kind, name>>} |->
                  IF k = <<kind, name>>
                    THEN [function |-> function, kind |-> kind, name |-> name,
                          params |-> params, returns |-> returns, security |-> security]
                    ELSE methods[k]],
   err |-> NoError]

\* _register_method: outcome [ok, methods, err]
_register_method(methods, function, kind, name, params, returns, security) ==
  IF MethodsGet(methods, <<kind, name>>) # NoMethod
    THEN [ok |-> FALSE, methods |-> methods,
          err |-> ResourceError("method already registered", NoCode)]
    ELSE [ok |-> TRUE,
          methods |-> [k \in DOMAIN methods \cup {<<kind, name>>} |->
                         IF k = <<kind, name>>
                           THEN _Method(function, kind, name, params, returns, security)
                           ELSE methods[k]],
          err |-> NoError]

\* getattr(self, name): the callable of attribute `name` bound to instance `self`
Bound(self, name) == <<self, name>>

\* variant: every bound function answers with one shared object
SelfOf_First(function) == 1

\* function.__self__
SelfOf(function) == function[1]

Untagged == [tagged |-> FALSE, m |-> NoMethod, argkind |-> None, argname |-> None]

Dir(body) == SelectSeq(AttrOrder, LAMBDA n : n \in DOMAIN body)

\* variant: the enumeration stops at the first undecorated callable
RECURSIVE RegisterAll_StopAtUntagged(_, _, _, _)
RegisterAll_StopAtUntagged(self, body, names, methods) ==
  IF names = <<>>
    THEN [ok |-> TRUE, methods |-> methods, err |-> NoError]
    ELSE LET function == Bound(self, Head(names))
             a == body[Head(names)]
         IN  IF ~a.tagged
               THEN [ok |-> TRUE, methods |-> methods, err |-> NoError]
               ELSE LET r == _register_method(methods, function, a.m.kind, a.m.name,
                                              a.m.params, a.m.returns, a.m.security)
                    IN  IF r.ok
                          THEN RegisterAll_StopAtUntagged(self, body, Tail(names), r.methods)
                          ELSE r

RECURSIVE RegisterAll(_, _, _, _)
RegisterAll(self, body, names, methods) ==
  IF names = <<>>
    THEN [ok |-> TRUE, methods |-> methods, err |-> NoError]
    ELSE LET function == Bound(self, Head(names))
             a == body[Head(names)]
         IN  IF ~a.tagged
               THEN RegisterAll(self, body, Tail(names), methods)
               ELSE LET r == _register_method(methods, function, a.m.kind, a.m.name,
                                              a.m.params, a.m.returns, a.m.security)
                    IN  IF r.ok THEN RegisterAll(self, body, Tail(names), r.methods)
                        ELSE r

\* Resource.__init__
ResourceInit(self, body) == RegisterAll(self, body, Dir(body), EmptyMethods)

-----------------------------------------------------------------------------
(* The method decorator: kind/name resolution *)

ResolveKindName(fname, kind, name) ==
  LET split == Split1(fname)
      _kind == IF kind = None THEN split[1] ELSE kind
      _name == IF Len(split) > 1 THEN PyOr(name, split[2]) ELSE name
  IN  <<_kind, _name>>

\* method(...)(function) on a function not bound to an instance
Decorate(f, kind, name, params, returns, security) ==
  /\ f \notin DOMAIN attrs
  /\ Cardinality(DOMAIN attrs \ BaseAttrs) < MaxAttrs
  /\ LET kn == ResolveKindName(f, kind, name)
     IN  attrs' = [n \in DOMAIN attrs \cup {f} |->
                     IF n = f
                       THEN [tagged |-> TRUE,
                             m |-> _Method(None, kn[1], kn[2], params, returns, security),
                             argkind |-> kind, argname |-> name]
                       ELSE attrs[n]]
  /\ UNCHANGED <<inst, acts, ctx, done, defaults>>

\* an instance: its registry (self.methods), the class body it was built from,
\* the error its construction raised, and the decorator applications made on
\* functions bound to it
NoInstance == [status |-> "none", methods |-> EmptyMethods, err |-> NoError,
               body |-> [n \in {} |-> Untagged], order |-> <<>>, log |-> <<>>]

\* Resource() : construction of instance i from the class body
Construct(i) ==
  /\ inst[i].status = "none"
  /\ LET r == ResourceInit(i, attrs)
     IN  inst' = [inst EXCEPT ![i] =
                    [status |-> IF r.ok THEN "live" ELSE "failed",
                     methods |-> r.methods,
                     err |-> r.err,
                     body |-> attrs,
                     order |-> Dir(attrs),
                     log |-> <<>>]]
  /\ UNCHANGED <<attrs, acts, ctx, done, defaults>>

\* the orders in which the attribute names of a class body can be enumerated
Orders(body) ==
  { o \in [1..Cardinality(DOMAIN body) -> DOMAIN body] :
      \A a, b \in DOMAIN o : a # b => o[a] # o[b] }

\* Resource.__init__ with dir(self) yielding the names in the order `names`
ConstructInOrder(i, names) ==
  /\ inst[i].status = "none"
  /\ LET r == RegisterAll(i, attrs, names, EmptyMethods)
     IN  inst' = [inst EXCEPT ![i] =
                    [status |-> IF r.ok THEN "live" ELSE "failed",
                     methods |-> r.methods,
                     err |-> r.err,
                     body |-> attrs,
                     order |-> names,
                     log |-> <<>>]]
  /\ UNCHANGED <<attrs, acts, ctx, done, defaults>>

\* method(...)(function) on a function bound to the live instance i (its plain
\* callable f): the decorated function is registered at once on function.__self__;
\* a failure of _register_method reaches the decorating code
BindDecorate(i, f, kind, name, params, returns, security) ==
  /\ inst[i].status = "live"
  /\ f \in DOMAIN inst[i].body
  /\ ~inst[i].body[f].tagged
  /\ Len(inst[i].log) < MaxBound
  /\ LET function == Bound(i, f)
         kn == ResolveKindName(f, kind, name)
         self == SelfOf(function)
         r == _register_method(inst[self].methods, function, kn[1], kn[2],
                               params, returns, security)
     IN  inst' = [inst EXCEPT
                    ![self].methods = r.methods,
                    ![self].log = Append(@, [function |-> function, argkind |-> kind,
                                             argname |-> name, key |-> kn,
                                             params |-> params, returns |-> returns,
                                             security |-> security,
                                             ok |-> r.ok, err |-> r.err,
                                             before |-> inst[self].methods])]
  /\ UNCHANGED <<attrs, acts, ctx, done, defaults>>

-----------------------------------------------------------------------------
(* Collaborators: roax.context (frame stack) and roax.schema (validation) *)

\* variant: one frame stack shared by every thread
LocalOf_Shared(t) == 1

\* the frame stack a thread's code sees: one stack per thread
LocalOf(t) == t

View(t) == ctx[LocalOf(t)]

Frame(kind, name) == [type |-> "method", kind |-> kind, name |-> name]

ContextEnter(stack, frame) == Append(stack, frame)

\* a value (keyword arguments or return value): none given, or one given
Values == {"absent", "given"}

\* verdict of the validation collaborator: without a schema any supplied value is
\* rejected; with a schema the supplied value conforms and a missing one does not
Rejects(schema, v) ==
  IF schema = None THEN v # "absent" ELSE v # "given"

ValidationError == BadRequest("validation failed")

-----------------------------------------------------------------------------
(* Invocation of a decorated function *)

NoOut == [kind |-> "none", value |-> "absent", err |-> NoError]
Return(v) == [kind |-> "return", value |-> v, err |-> NoError]
Raise(e) == [kind |-> "raise", value |-> "absent", err |-> e]

BodyErrors == { BadRequest("_body not hello_body"), KeyError("missing") }

BodyOutcomes == {Return(v) : v \in Values} \cup {Raise(e) : e \in BodyErrors}

\* variant: the validation layer is not composed around the wrapper
Pipeline_NoValidation == <<"push", "invoke", "pop">>

\* decorated = s.validate(params, returns)(wrapt.decorator(wrapper)(function)):
\* validation is the outer layer, the context wrapper the inner one
Pipeline == <<"validate_params", "push", "invoke", "pop", "validate_returns">>

Idx(stage) ==
  IF \E j \in 1..Len(Pipeline) : Pipeline[j] = stage
    THEN CHOOSE j \in 1..Len(Pipeline) : Pipeline[j] = stage
    ELSE 0

\* variant: push and pop without a with-block, the pop is skipped on an error
ContextExit_NoFinally(stack, out) ==
  IF out.kind = "raise" THEN stack ELSE SubSeq(stack, 1, Len(stack) - 1)

\* the with-block: the frame is released on every exit path
ContextExit(stack, out) == SubSeq(stack, 1, Len(stack) - 1)

\* where control goes once `stage` has finished with outcome `out`
AfterStage(stage, out) ==
  IF out.kind = "raise"
    THEN IF Idx("push") < Idx(stage) /\ Idx(stage) < Idx("pop") THEN "pop" ELSE "end"
    ELSE IF Idx(stage) < Len(Pipeline) THEN Pipeline[Idx(stage) + 1] ELSE "end"

\* variant: the lookup miss reported as NotFound
NoSuchMethod_404 == ResourceError("resource does not provide method", 404)

NoSuchMethod == ResourceError("resource does not provide method", 400)

\* variant: function(**params) inside the try, its KeyError taken for a lookup miss
CallResult_InsideTry(out) ==
  IF out.kind = "raise" /\ out.err.type = "KeyError"
    THEN [kind |-> "raise", value |-> "absent", err |-> NoSuchMethod]
    ELSE out

\* Resource.call: function(**params) stands outside the try, its errors pass through
CallResult(out) == out

\* variant: a registry that inserts an empty entry for a key it misses
Subscript_SetDefault(methods, key) ==
  [ok |-> TRUE,
   m |-> IF key \in DOMAIN methods THEN methods[key] ELSE NoMethod,
   methods |-> [k \in DOMAIN methods \cup {key} |->
                  IF k \in DOMAIN methods THEN methods[k] ELSE NoMethod]]

\* variant: the lookup goes by the kind alone
Subscript_ByKind(methods, key) ==
  IF \E k \in DOMAIN methods : k[1] = key[1]
    THEN [ok |-> TRUE,
          m |-> methods[CHOOSE k \in DOMAIN methods : k[1] = key[1]],
          methods |-> methods]
    ELSE [ok |-> FALSE, m |-> NoMethod, methods |-> methods]

\* self.methods[(kind, name)]: the entry under exactly that key, or a KeyError
\* (ok = FALSE); reading leaves the registry as it is
Subscript(methods, key) ==
  [ok |-> key \in DOMAIN methods,
   m |-> IF key \in DOMAIN methods THEN methods[key] ELSE NoMethod,
   methods |-> methods]

\* the default params mapping of call (params={}) after a call that used `params`:
\* function(**params) only reads it
DefaultsAfterCall(d, params) == d

\* the params mapping call works with: the argument, or the shared default
ParamsOf(p) == IF p = "omitted" THEN defaults ELSE p

\* an invocation in progress: m the operation, keys the registry's keys at the
\* lookup, body the outcome of the underlying function, out the pending outcome,
\* base the frame stack at the start, trace the stages performed so far
NewAct(i, m, key, p, via, base) ==
  [inst |-> i, m |-> m, key |-> key, params |-> p, via |-> via, pc |-> Pipeline[1],
   keys |-> DOMAIN inst[i].methods, reg |-> inst[i].methods,
   body |-> NoOut, out |-> NoOut, base |-> base, trace |-> <<>>]

\* the last completed invocation of a thread, as its caller observed it
NoDone == [valid |-> FALSE, inst |-> 0, key |-> <<None, None>>, keys |-> {},
           reg |-> EmptyMethods, m |-> NoMethod, via |-> "none", params |-> "absent",
           body |-> NoOut, out |-> NoOut,
           base |-> <<>>, after |-> <<>>, trace |-> <<>>, depth |-> 0]

Missed(t, i, key, p, depth) ==
  [NoDone EXCEPT !.valid = TRUE, !.inst = i, !.key = key,
                 !.keys = DOMAIN inst[i].methods, !.reg = inst[i].methods,
                 !.via = "call", !.params = p,
                 !.out = Raise(NoSuchMethod),
                 !.base = View(t), !.after = View(t), !.depth = depth]

Top(t) == acts[t][Len(acts[t])]

Finished(a, out, stackAfter, depth) ==
  [valid |-> TRUE, inst |-> a.inst, key |-> a.key, keys |-> a.keys, reg |-> a.reg,
   m |-> a.m, via |-> a.via, params |-> a.params, body |-> a.body,
   out |-> IF a.via = "call" THEN CallResult(out) ELSE out,
   base |-> a.base, after |-> stackAfter, trace |-> a.trace, depth |-> depth]

\* activation a of thread t has just finished `stage`; ctx2 is the new context
StageDone(t, a, stage, ctx2) ==
  LET nxt == AfterStage(stage, a.out)
      n == Len(acts[t])
  IN  /\ ctx' = ctx2
      /\ IF nxt # "end"
           THEN /\ acts' = [acts EXCEPT ![t][n] = [a EXCEPT !.pc = nxt]]
                /\ UNCHANGED done
           ELSE LET d == Finished(a, a.out, ctx2[LocalOf(t)], n)
                IN  /\ done' = [done EXCEPT ![t] = d]
                    /\ acts' = [acts EXCEPT ![t] =
                         IF n = 1 THEN <<>>
                         ELSE [SubSeq(acts[t], 1, n - 1) EXCEPT ![n - 1] =
                                 IF d.out.kind = "raise"
                                   THEN [@ EXCEPT !.pc = "pop", !.out = d.out,
                                                  !.body = d.out]
                                   ELSE [@ EXCEPT !.pc = "resume"]]]

\* resource.call(kind, name, params) from outside any operation
Call(t, i, k, n, p) ==
  /\ acts[t] = <<>>
  /\ inst[i].status = "live"
  /\ LET r == Subscript(inst[i].methods, <<k, n>>)
     IN  /\ IF r.ok
              THEN /\ acts' = [acts EXCEPT ![t] =
                                 <<NewAct(i, r.m, <<k, n>>, ParamsOf(p), "call", View(t))>>]
                   /\ done' = [done EXCEPT ![t] = NoDone]
              ELSE /\ done' = [done EXCEPT ![t] = Missed(t, i, <<k, n>>, ParamsOf(p), 1)]
                   /\ UNCHANGED acts
         /\ inst' = [inst EXCEPT ![i].methods = r.methods]
  /\ defaults' = DefaultsAfterCall(defaults, ParamsOf(p))
  /\ UNCHANGED <<attrs, ctx>>

\* resource.f(**params): the decorated attribute invoked directly
Invoke(t, i, f, p) ==
  /\ acts[t] = <<>>
  /\ inst[i].status = "live"
  /\ f \in DOMAIN inst[i].body
  /\ inst[i].body[f].tagged
  /\ acts' = [acts EXCEPT ![t] =
                <<NewAct(i, [inst[i].body[f].m EXCEPT !.function = Bound(i, f)],
                         <<inst[i].body[f].m.kind, inst[i].body[f].m.name>>,
                         p, "direct", View(t))>>]
  /\ done' = [done EXCEPT ![t] = NoDone]
  /\ UNCHANGED <<attrs, inst, ctx, defaults>>

ValidateParams(t) ==
  /\ acts[t] # <<>>
  /\ Top(t).pc = "validate_params"
  /\ LET a == Top(t)
         a2 == [a EXCEPT !.trace = Append(@, "validate_params"),
                         !.out = IF Rejects(a.m.params, a.params)
                                   THEN Raise(ValidationError) ELSE @]
     IN  StageDone(t, a2, "validate_params", ctx)
  /\ UNCHANGED <<attrs, inst, defaults>>

PushFrame(t) ==
  /\ acts[t] # <<>>
  /\ Top(t).pc = "push"
  /\ LET a == Top(t)
         a2 == [a EXCEPT !.trace = Append(@, "push")]
     IN  StageDone(t, a2, "push",
                   [ctx EXCEPT ![LocalOf(t)] = ContextEnter(@, Frame(a.m.kind, a.m.name))])
  /\ UNCHANGED <<attrs, inst, defaults>>

\* the underlying function runs to its end with outcome o
Body(t, o) ==
  /\ acts[t] # <<>>
  /\ Top(t).pc = "invoke"
  /\ LET a == Top(t)
         a2 == [a EXCEPT !.trace = Append(@, "invoke"), !.out = o, !.body = o]
     IN  StageDone(t, a2, "invoke", ctx)
  /\ UNCHANGED <<attrs, inst, defaults>>

\* the underlying function calls resource.call(k, n, p) itself
BodyCalls(t, i, k, n, p) ==
  /\ acts[t] # <<>>
  /\ Len(acts[t]) < MaxDepth
  /\ Top(t).pc = "invoke"
  /\ inst[i].status = "live"
  /\ LET a == Top(t)
         d == Len(acts[t])
         a2 == [a EXCEPT !.trace = Append(@, "invoke")]
         r == Subscript(inst[i].methods, <<k, n>>)
     IN  /\ IF r.ok
              THEN /\ acts' = [acts EXCEPT ![t] =
                         Append([acts[t] EXCEPT ![d] = [a2 EXCEPT !.pc = "wait"]],
                                NewAct(i, r.m, <<k, n>>, ParamsOf(p), "call", View(t)))]
                   /\ UNCHANGED done
              ELSE /\ acts' = [acts EXCEPT ![t][d] =
                         [a2 EXCEPT !.pc = "pop", !.out = Raise(NoSuchMethod),
                                    !.body = Raise(NoSuchMethod)]]
                   /\ done' = [done EXCEPT ![t] = Missed(t, i, <<k, n>>, ParamsOf(p), d + 1)]
         /\ inst' = [inst EXCEPT ![i].methods = r.methods]
  /\ defaults' = DefaultsAfterCall(defaults, ParamsOf(p))
  /\ UNCHANGED <<attrs, ctx>>

\* the underlying function goes on after its nested call returned
Resume(t, o) ==
  /\ acts[t] # <<>>
  /\ Top(t).pc = "resume"
  /\ LET a == Top(t)
         a2 == [a EXCEPT !.out = o, !.body = o]
     IN  StageDone(t, a2, "invoke", ctx)
  /\ UNCHANGED <<attrs, inst, defaults>>

PopFrame(t) ==
  /\ acts[t] # <<>>
  /\ Top(t).pc = "pop"
  /\ LET a == Top(t)
         a2 == [a EXCEPT !.trace = Append(@, "pop")]
     IN  StageDone(t, a2, "pop",
                   [ctx EXCEPT ![LocalOf(t)] = ContextExit(@, a.out)])
  /\ UNCHANGED <<attrs, inst, defaults>>

ValidateReturns(t) ==
  /\ acts[t] # <<>>
  /\ Top(t).pc = "validate_returns"
  /\ LET a == Top(t)
         a2 == [a EXCEPT !.trace = Append(@, "validate_returns"),
                         !.out = IF Rejects(a.m.returns, a.out.value)
                                   THEN Raise(ValidationError) ELSE @]
     IN  StageDone(t, a2, "validate_returns", ctx)
  /\ UNCHANGED <<attrs, inst, defaults>>

-----------------------------------------------------------------------------
(* Specification *)

CallKinds == { <<"create">>, <<"action">> }
CallNames == { None, <<"foo">> }

Init ==
  /\ attrs = [n \in BaseAttrs |-> Untagged]
  /\ inst = [i \in Instances |-> NoInstance]
  /\ acts = [t \in Threads |-> <<>>]
  /\ ctx = [t \in Threads |-> <<>>]
  /\ done = [t \in Threads |-> NoDone]
  /\ defaults = "absent"

DeclareStep ==
  \E d \in Decls : Decorate(d.f, d.kind, d.name, d.params, d.returns, d.security)

ConstructStep == \E i \in Instances : Construct(i)

CallParams == Values \cup {"omitted"}

CallStep(T) ==
  \E t \in T, i \in Instances, k \in CallKinds, n \in CallNames, p \in CallParams :
    Call(t, i, k, n, p)

InvokeStep(T) ==
  \E t \in T, i \in Instances, f \in FuncNames, p \in Values : Invoke(t, i, f, p)

\* two threads calling concurrently, operations that call no operation
Next ==
  \/ DeclareStep
  \/ ConstructStep
  \/ CallStep(Threads)
  \/ InvokeStep(Threads)
  \/ \E t \in Threads : ValidateParams(t)
  \/ \E t \in Threads : PushFrame(t)
  \/ \E t \in Threads, o \in BodyOutcomes : Body(t, o)
  \/ \E t \in Threads : PopFrame(t)
  \/ \E t \in Threads : ValidateReturns(t)

Spec == Init /\ [][Next]_vars

\* one thread, operations that may call further operations
NestThreads == {1}

NextNested ==
  \/ DeclareStep
  \/ ConstructStep
  \/ CallStep(NestThreads)
  \/ InvokeStep(NestThreads)
  \/ \E t \in NestThreads : ValidateParams(t)
  \/ \E t \in NestThreads : PushFrame(t)
  \/ \E t \in NestThreads, o \in BodyOutcomes : Body(t, o)
  \/ \E t \in NestThreads, i \in Instances, k \in CallKinds, n \in CallNames, p \in CallParams :
       BodyCalls(t, i, k, n, p)
  \/ \E t \in NestThreads, o \in BodyOutcomes : Resume(t, o)
  \/ \E t \in NestThreads : PopFrame(t)
  \/ \E t \in NestThreads : ValidateReturns(t)

SpecNested == Init /\ [][NextNested]_vars

\* one thread, operations that raise the errors of the taxonomy
NextErrors ==
  \/ DeclareStep
  \/ ConstructStep
  \/ CallStep(NestThreads)
  \/ \E t \in NestThreads : ValidateParams(t)
  \/ \E t \in NestThreads : PushFrame(t)
  \/ \E t \in NestThreads, e \in TaxonomyErrors : Body(t, Raise(e))
  \/ \E t \in NestThreads : PopFrame(t)

SpecErrors == Init /\ [][NextErrors]_vars

\* the decorator applied to every combination of identifier and explicit arguments
NextDecorate ==
  \E f \in AnyFuncNames, k \in AnyKinds, n \in AnyNames :
    Decorate(f, k, n, None, None, None)

SpecDecorate == Init /\ [][NextDecorate]_vars

\* two instances, decorators applied to class functions and to bound functions
RegInstances == {1, 2}

BoundKinds == { None, <<"create">> }

BoundNames == { None, <<"foo">> }

InitRegistry ==
  /\ attrs = [n \in BaseAttrs |-> Untagged]
  /\ inst = [i \in RegInstances |-> NoInstance]
  /\ acts = [t \in Threads |-> <<>>]
  /\ ctx = [t \in Threads |-> <<>>]
  /\ done = [t \in Threads |-> NoDone]
  /\ defaults = "absent"

BindStep(I) ==
  \E i \in I, f \in BaseAttrs, k \in BoundKinds, n \in BoundNames :
    BindDecorate(i, f, k, n, None, None, None)

NextRegistry ==
  \/ DeclareStep
  \/ \E i \in RegInstances : Construct(i)
  \/ BindStep(RegInstances)

SpecRegistry == InitRegistry /\ [][NextRegistry]_vars

\* construction under every enumeration order of the attributes
NextEnumerate ==
  \/ DeclareStep
  \/ \E i \in Instances : \E o \in Orders(attrs) : ConstructInOrder(i, o)

SpecEnumerate == Init /\ [][NextEnumerate]_vars

\* one instance and one thread: calls interleaved with decorations of functions
\* bound to the live instance
NextLive ==
  \/ DeclareStep
  \/ ConstructStep
  \/ BindStep(Instances)
  \/ CallStep(NestThreads)
  \/ \E t \in NestThreads : ValidateParams(t)
  \/ \E t \in NestThreads : PushFrame(t)
  \/ \E t \in NestThreads, o \in BodyOutcomes : Body(t, o)
  \/ \E t \in NestThreads : PopFrame(t)
  \/ \E t \in NestThreads : ValidateReturns(t)

SpecLive == Init /\ [][NextLive]_vars

-----------------------------------------------------------------------------
(* Properties *)

Has(seq, x) == \E j \in 1..Len(seq) : seq[j] = x

Pos(seq, x) == IF Has(seq, x) THEN CHOOSE j \in 1..Len(seq) : seq[j] = x ELSE 0

Count(seq, x) == Cardinality({j \in 1..Len(seq) : seq[j] = x})

Tagged(body) == {f \in DOMAIN body : body[f].tagged}

KeyOf(body, f) == <<body[f].m.kind, body[f].m.name>>

HasDuplicate(body) ==
  \E f, g \in Tagged(body) : f # g /\ KeyOf(body, f) = KeyOf(body, g)

C2_UnknownOperationIs400 ==
  \A t \in Threads :
    (done[t].valid /\ done[t].via = "call" /\ done[t].key \notin done[t].keys) =>
      /\ done[t].out.kind = "raise"
      /\ done[t].out.err.type = "ResourceError"
      /\ done[t].out.err.code = 400
      /\ done[t].m = NoMethod
      /\ done[t].trace = <<>>

C2_Witness ==
  \E t \in Threads :
    /\ done[t].valid /\ done[t].via = "call"
    /\ done[t].keys # {} /\ done[t].key \notin done[t].keys
    /\ done[t].params = "given"

\* C3: an operation declared with a params schema, invoked directly or through
\* call with keyword arguments the validation rejects, fails with a 400-coded
\* error and its underlying function is not invoked in that invocation.
C3_RejectedParamsNeverInvoke ==
  \A t \in Threads :
    /\ (done[t].valid /\ done[t].m # NoMethod /\ done[t].m.params # None
          /\ Rejects(done[t].m.params, done[t].params)) =>
         /\ done[t].out.kind = "raise"
         /\ done[t].out.err.code = 400
         /\ ~Has(done[t].trace, "invoke")
    /\ \A j \in 1..Len(acts[t]) :
         (acts[t][j].m.params # None /\ Rejects(acts[t][j].m.params, acts[t][j].params)) =>
           /\ ~Has(acts[t][j].trace, "invoke")
           /\ acts[t][j].pc # "invoke"

C3_Witness ==
  \E t, u \in Threads :
    /\ done[t].valid /\ done[t].via = "call" /\ done[t].m.params # None
    /\ Rejects(done[t].m.params, done[t].params)
    /\ done[u].valid /\ done[u].via = "direct" /\ done[u].m.params # None
    /\ Rejects(done[u].m.params, done[u].params)

\* C4: after every completed invocation (normal return, error of the underlying
\* function, validation failure) the frame stack is what it was immediately
\* before the invocation, each pushed frame was popped exactly once, and a thread
\* with no invocation in progress has no frame on its stack.
C4_FrameStackBalanced ==
  \A t \in Threads :
    /\ done[t].valid =>
         /\ done[t].after = done[t].base
         /\ Count(done[t].trace, "pop") = Count(done[t].trace, "push")
         /\ Count(done[t].trace, "push") <= 1
    /\ acts[t] = <<>> => View(t) = <<>>

C4_Witness ==
  \E t \in Threads :
    /\ done[t].valid /\ done[t].depth = 2
    /\ done[t].base # <<>>
    /\ done[t].body.kind = "raise"
    /\ Has(done[t].trace, "pop")

\* the frames of thread t's own invocations whose frame is pushed and not popped
OwnFrames(t) ==
  LET on == SelectSeq(acts[t], LAMBDA a : Has(a.trace, "push") /\ ~Has(a.trace, "pop"))
  IN  [j \in 1..Len(on) |-> Frame(on[j].m.kind, on[j].m.name)]

\* C5: two concurrent calls never observe each other's context frames: the stack
\* the code of a call sees holds exactly the frames pushed by that thread's own
\* invocations, and a step of one thread leaves the stack seen by the other as
\* it was.
C5_FramesIsolated ==
  /\ [](\A t \in Threads : View(t) = OwnFrames(t))
  /\ [][\A t \in Threads :
          (acts'[t] = acts[t] /\ done'[t] = done[t]) => ctx'[LocalOf(t)] = ctx[LocalOf(t)]]_vars

C5_Witness ==
  \E t, u \in Threads :
    /\ t # u
    /\ View(t) # <<>> /\ View(u) # <<>>
    /\ <<View(t)[1].kind, View(t)[1].name>> # <<View(u)[1].kind, View(u)[1].name>>
    /\ Top(t).inst = Top(u).inst

\* C6: kind/name resolution of the method decorator: with no explicit argument the
\* kind is the identifier's segment before the first underscore and the name is
\* what follows it (None when the identifier has no underscore); every explicitly
\* supplied kind or name, empty values included, is the one used.
C6_ExplicitAlwaysWins ==
  \A f \in Tagged(attrs) :
    LET a == attrs[f]
        split == Split1(f)
    IN  /\ a.argkind # None => a.m.kind = a.argkind
        /\ a.argname # None => a.m.name = a.argname
        /\ a.argkind = None => a.m.kind = split[1]
        /\ a.argname = None => a.m.name = (IF Len(split) > 1 THEN split[2] ELSE None)

\* C7: an operation declared on the function foo with the explicit kind "action"
\* and no explicit name is addressable as kind "action", name "foo":
\* call("action", "foo", params) dispatches to foo and is no unknown operation.
C7_ActionFooAddressable ==
  \A t \in Threads :
    (/\ done[t].valid /\ done[t].via = "call"
     /\ done[t].key = << <<"action">>, <<"foo">> >>
     /\ done[t].params = "given"
     /\ <<"foo">> \in Tagged(inst[done[t].inst].body)
     /\ inst[done[t].inst].body[<<"foo">>].argkind = <<"action">>
     /\ inst[done[t].inst].body[<<"foo">>].argname = None) =>
       /\ done[t].m.function = Bound(done[t].inst, <<"foo">>)
       /\ done[t].out # Raise(NoSuchMethod)

SpecOrder ==
  <<"push", "security", "validate_params", "invoke", "validate_returns", "pop">>

\* C8: every invocation of a declared operation that returns normally has performed
\* its stages in the order push frame, apply security policy, validate params,
\* invoke function, validate return value, pop frame.
C8_StageOrder ==
  \A t \in Threads :
    (done[t].valid /\ done[t].m # NoMethod /\ done[t].out.kind = "return") =>
      done[t].trace = SpecOrder

\* C9: an operation declared with a security policy has the security hook applied
\* after the frame is pushed and before the underlying function is invoked, and a
\* policy that denies the call keeps the underlying function from being invoked.
C9_SecurityApplied ==
  \A t \in Threads :
    /\ (done[t].valid /\ done[t].m.security # None /\ Has(done[t].trace, "invoke")) =>
         /\ Has(done[t].trace, "security")
         /\ Pos(done[t].trace, "push") < Pos(done[t].trace, "security")
         /\ Pos(done[t].trace, "security") < Pos(done[t].trace, "invoke")
    /\ (done[t].valid /\ done[t].m.security = DenyAll) =>
         /\ ~Has(done[t].trace, "invoke")
         /\ done[t].out.kind = "raise"
         /\ done[t].out.err.type \in {"Unauthorized", "Forbidden"}

\* C10: an error raised by the underlying function reaches the caller of call()
\* unchanged (same kind, detail and code): a KeyError of the function is not
\* turned into the 400 "no such operation" error, a BadRequest stays a BadRequest.
C10_FunctionErrorsUnchanged ==
  \A t \in Threads :
    (done[t].valid /\ done[t].via = "call" /\ done[t].body.kind = "raise") =>
      /\ done[t].out = done[t].body
      /\ done[t].out.err.type = done[t].body.err.type
      /\ done[t].out.err.detail = done[t].body.err.detail
      /\ done[t].out.err.code = done[t].body.err.code

C10_Witness ==
  \E t, u \in Threads :
    /\ done[t].valid /\ done[t].via = "call"
    /\ done[t].body = Raise(KeyError("missing"))
    /\ done[u].valid /\ done[u].via = "call"
    /\ done[u].body = Raise(BadRequest("_body not hello_body"))

-----------------------------------------------------------------------------
(* Properties of the registry, the dispatch and the error taxonomy *)

CodeOf(type) ==
  CASE type = "BadRequest" -> 400
    [] type = "Unauthorized" -> 401
    [] type = "Forbidden" -> 403
    [] type = "NotFound" -> 404
    [] type = "Conflict" -> 412
    [] type = "PreconditionFailed" -> 412
    [] type = "InternalServerError" -> 500
    [] OTHER -> NoCode

TaxonomyTypes ==
  {"BadRequest", "Unauthorized", "Forbidden", "NotFound", "Conflict",
   "PreconditionFailed", "InternalServerError"}

\* C12: every error kind carries the fixed code of the taxonomy whatever detail it
\* was constructed with (BadRequest 400, Unauthorized 401, Forbidden 403, NotFound
\* 404, Conflict 412, PreconditionFailed 412, InternalServerError 500), every
\* instance exposes detail and code, and Unauthorized also exposes its realm.
C12_FixedCodes ==
  \A t \in Threads :
    (done[t].valid /\ done[t].body.kind = "raise"
       /\ done[t].body.err.type \in TaxonomyTypes) =>
      LET e == done[t].out.err
      IN  /\ {"detail", "code"} \subseteq DOMAIN e
          /\ e.code = CodeOf(e.type)
          /\ e.detail \in Details
          /\ ("realm" \in DOMAIN e) = (e.type = "Unauthorized")
          /\ e.type = "Unauthorized" => e.realm \in Realms
          /\ e = done[t].body.err

C12_Witness ==
  \E t \in Threads :
    /\ done[t].valid
    /\ done[t].out.err.type = "Unauthorized"
    /\ done[t].out.err.realm = "admins"
    /\ done[t].out.err.detail = "not allowed"

Live(i) == inst[i].status = "live"

\* C11 as stated: once construction has completed the registry of the instance
\* never changes again, whichever operation of the module is applied.
C11_RegistryImmutable ==
  [][\A i \in Instances : Live(i) => inst'[i].methods = inst[i].methods]_vars

\* C11: once construction has completed, no call and no decoration of an unbound
\* function changes the registry of the instance, and no operation removes or
\* replaces an entry; only the method decorator applied to a function bound to the
\* live instance changes it, by adding one entry under a (kind, name) that was not
\* present.
C11_RegistryOnlyGrows ==
  [][\A i \in Instances :
       Live(i) =>
         /\ Live(i)'
         /\ \A k \in DOMAIN inst[i].methods :
              k \in DOMAIN inst'[i].methods /\ inst'[i].methods[k] = inst[i].methods[k]
         /\ inst'[i].methods # inst[i].methods =>
              /\ Len(inst'[i].log) = Len(inst[i].log) + 1
              /\ LET b == inst'[i].log[Len(inst'[i].log)]
                 IN  /\ b.ok
                     /\ b.key \notin DOMAIN inst[i].methods
                     /\ DOMAIN inst'[i].methods = DOMAIN inst[i].methods \cup {b.key}
              /\ UNCHANGED <<attrs, acts, ctx, done, defaults>>]_vars

C11_Witness ==
  \E i \in Instances, t \in NestThreads :
    /\ Live(i) /\ inst[i].log # <<>> /\ inst[i].log[1].ok
    /\ inst[i].methods # ResourceInit(i, inst[i].body).methods
    /\ done[t].valid /\ done[t].inst = i /\ done[t].via = "call"
    /\ done[t].m # NoMethod /\ done[t].m.function = inst[i].log[1].function
    /\ Tagged(attrs) # Tagged(inst[i].body)

\* the registry the claim describes for a class body: one entry per tagged
\* callable, under its declared kind and name, holding the callable bound to self
Expected(self, body) ==
  [k \in {KeyOf(body, f) : f \in Tagged(body)} |->
     LET f == CHOOSE g \in Tagged(body) : KeyOf(body, g) = k
     IN  [body[f].m EXCEPT !.function = Bound(self, f)]]

\* C13: the registry after construction holds exactly one entry per tagged
\* callable, under that callable's declared kind and name, and none for an
\* untagged callable; when the tagged callables have pairwise distinct keys,
\* every enumeration order of the attributes gives that same registry.
C13_RegistryExact ==
  \A i \in Instances :
    LET body == inst[i].body
    IN  /\ Live(i) =>
             /\ Cardinality(DOMAIN inst[i].methods) = Cardinality(Tagged(body))
             /\ \A f \in Tagged(body) :
                  /\ KeyOf(body, f) \in DOMAIN inst[i].methods
                  /\ inst[i].methods[KeyOf(body, f)] =
                       [body[f].m EXCEPT !.function = Bound(i, f)]
             /\ \A k \in DOMAIN inst[i].methods :
                  inst[i].methods[k].function[2] \in Tagged(body)
        /\ (inst[i].status # "none" /\ ~HasDuplicate(body)) =>
             /\ Live(i)
             /\ inst[i].methods = Expected(i, body)
             /\ inst[i].methods = ResourceInit(i, body).methods

C13_Witness ==
  \E i \in Instances :
    /\ Live(i)
    /\ Cardinality(Tagged(inst[i].body)) >= 2
    /\ \E a, b \in 1..Len(inst[i].order) :
         /\ a < b
         /\ inst[i].body[inst[i].order[a]].tagged
         /\ ~inst[i].body[inst[i].order[b]].tagged
         /\ Pos(Dir(inst[i].body), inst[i].order[a]) > Pos(Dir(inst[i].body), inst[i].order[b])
    /\ \E a, b \in 1..Len(inst[i].order) :
         /\ a < b
         /\ inst[i].body[inst[i].order[a]].tagged
         /\ inst[i].body[inst[i].order[b]].tagged
         /\ Pos(Dir(inst[i].body), inst[i].order[a]) > Pos(Dir(inst[i].body), inst[i].order[b])

\* C14: call(kind, name, params) with a registered (kind, name) invokes the
\* function stored under exactly that key, once, with the given params, and its
\* outcome is the outcome of the call; no function stored under another key is
\* invoked, and a call that misses invokes none.
C14_CallInvokesStored ==
  \A t \in Threads :
    /\ (done[t].valid /\ done[t].via = "call") =>
         /\ done[t].m # NoMethod <=> done[t].key \in done[t].keys
         /\ done[t].key \in done[t].keys =>
              /\ done[t].m = done[t].reg[done[t].key]
              /\ <<done[t].m.kind, done[t].m.name>> = done[t].key
              /\ Count(done[t].trace, Pipeline[1]) = 1
              /\ Count(done[t].trace, "invoke") <= 1
              /\ done[t].body.kind = "raise" => done[t].out = done[t].body
              /\ (done[t].body.kind = "return"
                    /\ ~Rejects(done[t].m.returns, done[t].body.value)) =>
                   done[t].out = done[t].body
    /\ \A j \in 1..Len(acts[t]) :
         acts[t][j].via = "call" =>
           /\ acts[t][j].key \in acts[t][j].keys
           /\ acts[t][j].m = acts[t][j].reg[acts[t][j].key]
           /\ Count(acts[t][j].trace, Pipeline[1]) <= 1
           /\ Count(acts[t][j].trace, "invoke") <= 1

C14_Witness ==
  \E t \in Threads :
    /\ done[t].valid /\ done[t].via = "call"
    /\ done[t].key \in done[t].keys
    /\ \E k \in done[t].keys : k # done[t].key /\ k[1] = done[t].key[1]
    /\ Count(done[t].trace, "invoke") = 1
    /\ done[t].out.kind = "return" /\ done[t].out.value = "given"
    /\ done[t].params = "given"

\* C18: call never modifies the registry: whether the (kind, name) is registered
\* or not and whatever params is, the registry's keys and stored operations
\* after the call has returned or raised are those before it, and the shared
\* default params mapping of call stays empty.
C18_CallLeavesRegistry ==
  /\ defaults = "absent"
  /\ \A t \in Threads :
       /\ (done[t].valid /\ done[t].via = "call") =>
            /\ inst[done[t].inst].methods = done[t].reg
            /\ DOMAIN inst[done[t].inst].methods = done[t].keys
       /\ \A j \in 1..Len(acts[t]) :
            inst[acts[t][j].inst].methods = acts[t][j].reg

C18_Witness ==
  \E t, u \in Threads :
    /\ done[t].valid /\ done[t].via = "call" /\ done[t].key \notin done[t].keys
    /\ done[u].valid /\ done[u].via = "call" /\ done[u].key \in done[u].keys
    /\ done[u].out.kind = "raise" /\ done[u].params = "absent"
    /\ done[t].keys # {}

\* the frames of thread t's invocations in progress: those that have performed a
\* stage and have not returned to their caller
Started(t) == SelectSeq(acts[t], LAMBDA a : a.trace # <<>>)

\* C15: at every moment, nested invocations included, the method frames on the
\* stack are bottom-to-top those of the operation invocations in progress, each
\* with type "method" and the kind and name its operation is registered under;
\* the top frame is that of the innermost one, and the stack changes only by one
\* frame being appended or the last one being removed, also when an inner
\* invocation raises.
C15_FramesFollowInvocations ==
  /\ [](\A t \in Threads :
          /\ View(t) = [j \in 1..Len(Started(t)) |->
                          Frame(Started(t)[j].m.kind, Started(t)[j].m.name)]
          /\ \A j \in 1..Len(View(t)) : View(t)[j].type = "method")
  /\ [][\A t \in Threads :
          \/ View(t)' = View(t)
          \/ \E f \in {View(t)'[j] : j \in 1..Len(View(t)')} : View(t)' = Append(View(t), f)
          \/ View(t) # <<>> /\ View(t)' = SubSeq(View(t), 1, Len(View(t)) - 1)]_vars

LastBound(i) == inst[i].log[Len(inst[i].log)]

\* C16: the method decorator applied to a function bound to a live instance
\* registers the operation at once in that instance's registry under the resolved
\* (kind, name), and fails with the duplicate-registration error (the
\* ResourceError "method already registered"), leaving the registry as it was,
\* when that key is present; applied to an unbound function it changes no
\* registry and only attaches the declaration metadata to the function.
C16_BoundRegistersAtOnce ==
  /\ [](\A i \in RegInstances : \A j \in 1..Len(inst[i].log) :
          LET b == inst[i].log[j]
          IN  /\ SelfOf(b.function) = i
              /\ b.key = ResolveKindName(b.function[2], b.argkind, b.argname)
              /\ b.ok <=> b.key \notin DOMAIN b.before
              /\ b.ok =>
                   /\ b.key \in DOMAIN inst[i].methods
                   /\ inst[i].methods[b.key] =
                        _Method(b.function, b.key[1], b.key[2],
                                b.params, b.returns, b.security)
              /\ ~b.ok =>
                   /\ b.err.type = "ResourceError"
                   /\ b.err.detail = "method already registered")
  /\ [][/\ \A i \in RegInstances :
             Len(inst'[i].log) > Len(inst[i].log) =>
               /\ Live(i)
               /\ DOMAIN inst'[i].methods = DOMAIN LastBound(i)'.before \cup {LastBound(i)'.key}
               /\ LastBound(i)'.before = inst[i].methods
               /\ ~LastBound(i)'.ok => inst'[i].methods = inst[i].methods
               /\ attrs' = attrs
        /\ attrs' # attrs =>
             /\ inst' = inst
             /\ \E f \in DOMAIN attrs' \ DOMAIN attrs :
                  /\ DOMAIN attrs' = DOMAIN attrs \cup {f}
                  /\ \A g \in DOMAIN attrs : attrs'[g] = attrs[g]
                  /\ attrs'[f].tagged
                  /\ attrs'[f].m.function = None
                  /\ <<attrs'[f].m.kind, attrs'[f].m.name>> =
                       ResolveKindName(f, attrs'[f].argkind, attrs'[f].argname)]_vars

\* the error _register_method is written to raise for a key that is present
IsDuplicateError(e) ==
  /\ e.type = "ResourceError"
  /\ e.detail = "method already registered"
  /\ e.code # NoCode

\* C17: the failure of _register_method for a (kind, name) that is present is a
\* ResourceError with a detail naming the pair and an integer code, and the entry
\* stored under that pair stays as it was.
C17_DuplicateIsResourceError ==
  \A i \in RegInstances :
    /\ inst[i].status = "failed" =>
         /\ IsDuplicateError(inst[i].err)
         /\ \A f \in Tagged(inst[i].body) :
              KeyOf(inst[i].body, f) \in DOMAIN inst[i].methods =>
                inst[i].methods[KeyOf(inst[i].body, f)].function[1] = i
    /\ \A j \in 1..Len(inst[i].log) :
         ~inst[i].log[j].ok =>
           /\ IsDuplicateError(inst[i].log[j].err)
           /\ inst[i].methods[inst[i].log[j].key] =
                inst[i].log[j].before[inst[i].log[j].key]

\* C19: each instance owns its registry: constructing or registering on one
\* instance never adds, removes or replaces an entry of another instance's
\* registry, and the function stored under a key of an instance's registry is
\* bound to that instance.
C19_RegistriesIndependent ==
  /\ [](\A i \in RegInstances : \A k \in DOMAIN inst[i].methods :
          inst[i].methods[k].function[1] = i)
  /\ [][\A i \in RegInstances :
          inst'[i] # inst[i] =>
            /\ \A j \in RegInstances \ {i} : inst'[j] = inst[j]
            /\ Len(inst'[i].log) > Len(inst[i].log) =>
                 LastBound(i)'.function[1] = i]_vars

C19_Witness ==
  \E i, j \in RegInstances :
    /\ i # j /\ Live(i) /\ Live(j)
    /\ inst[i].body = inst[j].body /\ Tagged(inst[i].body) # {}
    /\ inst[i].log # <<>> /\ inst[i].log[1].ok
    /\ inst[j].log = <<>>
    /\ DOMAIN inst[i].methods = DOMAIN inst[j].methods \cup {inst[i].log[1].key}
    /\ inst[i].log[1].key \notin DOMAIN inst[j].methods

=============================================================================
